---- MODULE Spec2Model ----
(***************************************************************************)
(* Starline Salvage (backend/main.py): the session state machine driven by *)
(* POST /api/act.  One session is created by new_game and then receives a  *)
(* sequence of ActionRequests; every request is resolved by act.           *)
(*                                                                         *)
(* Random draws (random.Random(...).random() / randint) are modelled as    *)
(* nondeterministic choices over the outcomes the draw can produce: the    *)
(* session seed comes from the clock and anomaly ids from uuid4.           *)
(* state.log is only ever appended to and never read by act; the model     *)
(* keeps its length.                                                       *)
(*                                                                         *)
(* req and resp are the last request received and the last response sent;  *)
(* salvaged counts, per anomaly id, how often its value was credited;      *)
(* inflight holds, per caller, how far a call of act that runs alongside   *)
(* another one has come (act is a plain def: the server runs every call in *)
(* a worker thread).                                                       *)
(***************************************************************************)
EXTENDS Integers, Sequences, FiniteSets, TLC

VARIABLES seed, turn, x, y, fuel, hull, credits, status, log,
          anomalies, stations, pending_event,
          req, resp, salvaged, inflight

gameVars == <<seed, turn, x, y, fuel, hull, credits, status, log,
              anomalies, stations, pending_event>>
vars == <<seed, turn, x, y, fuel, hull, credits, status, log,
          anomalies, stations, pending_event, req, resp, salvaged, inflight>>

---------------------------------------------------------------------------
(* Program constants *)
MAP_SIZE == 5
GOAL_CREDITS == 120
MAX_FUEL == 12
MAX_HULL == 10
START_CREDITS == 20

(* Bounds of the exploration: no request is submitted once turn = MaxTurn  *)
MaxTurn == 5
(* The same for the two long sessions below *)
MaxRaidTurn == 9
MaxDriftTurn == 14
(* No call of act that overlaps another is begun once turn = MaxRaceTurn *)
MaxRaceTurn == 4
(* The brawling client below submits nothing once turn = MaxBrawlTurn *)
MaxBrawlTurn == 7
(* A stranded session is sent requests until turn = MaxStrandTurn *)
MaxStrandTurn == 16

---------------------------------------------------------------------------
(* Python values *)
None == "<None>"
NoEvent == [type |-> "none", threat |-> 0]

Min(a, b) == IF a < b THEN a ELSE b

(* str.lower() on the strings the requests use *)
Lower(s) ==
    CASE s = "SCAN" -> "scan"
      [] s = "E" -> "e"
      [] OTHER -> s

---------------------------------------------------------------------------
(* World generation.  random.Random(seed) is a deterministic stream: the    *)
(* tables hold what it yields for the seed.  uuid.uuid4() is not seeded: a  *)
(* generation's ids are a nondeterministic draw.                            *)
Seeds == {149039}

(* the seeds new_game draws from the clock, as far as the tables go *)
ClockSeeds == {149039, 13, 2}

(* uuid.uuid4().hex: the k-th id handed out by a generation whose draw is u *)
Uuid(u, k) == u \o ToString(k)
AnomalyUuids == {"a", "b", "c", "d", "e", "f"}
StationUuids == {"s", "t", "u", "v", "w", "x"}

(* lines 91-95: the name, position, value and risk random.Random(s) rolls   *)
(* for each of the 10 anomalies                                             *)
AnomalyRolls(s) ==
    CASE s = 149039 -> <<
        [name |-> "Solar Wreck", x |-> 0, y |-> 1, value |-> 39, risk |-> 1],
        [name |-> "Derelict Skiff", x |-> 4, y |-> 4, value |-> 39, risk |-> 4],
        [name |-> "Derelict Skiff", x |-> 0, y |-> 1, value |-> 38, risk |-> 4],
        [name |-> "Shard Garden", x |-> 0, y |-> 0, value |-> 40, risk |-> 1],
        [name |-> "Cracked Probe", x |-> 3, y |-> 2, value |-> 19, risk |-> 1],
        [name |-> "Hollow Freighter", x |-> 4, y |-> 3, value |-> 19, risk |-> 3],
        [name |-> "Quiet Tomb", x |-> 0, y |-> 0, value |-> 37, risk |-> 2],
        [name |-> "Hollow Freighter", x |-> 1, y |-> 0, value |-> 16, risk |-> 2],
        [name |-> "Echo Relay", x |-> 0, y |-> 0, value |-> 32, risk |-> 3],
        [name |-> "Glitter Cache", x |-> 1, y |-> 0, value |-> 10, risk |-> 4] >>
      [] s = 13 -> <<
        [name |-> "Hollow Freighter", x |-> 2, y |-> 1, value |-> 30, risk |-> 2],
        [name |-> "Drift Beacon", x |-> 1, y |-> 1, value |-> 14, risk |-> 1],
        [name |-> "Quiet Tomb", x |-> 1, y |-> 2, value |-> 10, risk |-> 4],
        [name |-> "Drift Beacon", x |-> 4, y |-> 0, value |-> 18, risk |-> 2],
        [name |-> "Glitter Cache", x |-> 2, y |-> 3, value |-> 33, risk |-> 4],
        [name |-> "Drift Beacon", x |-> 2, y |-> 2, value |-> 37, risk |-> 2],
        [name |-> "Echo Relay", x |-> 4, y |-> 4, value |-> 23, risk |-> 3],
        [name |-> "Solar Wreck", x |-> 2, y |-> 0, value |-> 21, risk |-> 3],
        [name |-> "Echo Relay", x |-> 4, y |-> 4, value |-> 33, risk |-> 2],
        [name |-> "Echo Relay", x |-> 3, y |-> 4, value |-> 15, risk |-> 3] >>
      [] s = 2 -> <<
        [name |-> "Derelict Skiff", x |-> 0, y |-> 0, value |-> 21, risk |-> 2],
        [name |-> "Hollow Freighter", x |-> 2, y |-> 4, value |-> 16, risk |-> 1],
        [name |-> "Shard Garden", x |-> 1, y |-> 3, value |-> 30, risk |-> 4],
        [name |-> "Quiet Tomb", x |-> 2, y |-> 4, value |-> 39, risk |-> 4],
        [name |-> "Quiet Tomb", x |-> 2, y |-> 0, value |-> 37, risk |-> 1],
        [name |-> "Cracked Probe", x |-> 3, y |-> 2, value |-> 39, risk |-> 4],
        [name |-> "Solar Wreck", x |-> 4, y |-> 1, value |-> 27, risk |-> 2],
        [name |-> "Ice Vault", x |-> 1, y |-> 0, value |-> 15, risk |-> 3],
        [name |-> "Drift Beacon", x |-> 1, y |-> 4, value |-> 26, risk |-> 3],
        [name |-> "Quiet Tomb", x |-> 4, y |-> 1, value |-> 38, risk |-> 4] >>

(* lines 75-108: the rolls of the seed, each with a fresh uuid as its id *)
generate_anomalies(s, u) ==
    [i \in 1..10 |->
        [id |-> Uuid(u, i),
         name |-> AnomalyRolls(s)[i].name,
         x |-> AnomalyRolls(s)[i].x,
         y |-> AnomalyRolls(s)[i].y,
         value |-> AnomalyRolls(s)[i].value,
         risk |-> AnomalyRolls(s)[i].risk,
         collected |-> FALSE]]

(* lines 113-119 *)
StationNames ==
    <<"Cinder Tradepost", "Nova Exchange", "Kepler Bazaar", "Drydock 19", "Marrow Port">>

(* lines 112, 122, 123 and 131: what random.Random(s + 4242) yields, in the  *)
(* order the loop asks for it; randrange(MAP_SIZE) and choice(names) both   *)
(* draw below 5                                                             *)
StationStream(s) ==
    CASE s = 149039 -> <<0, 0, 3, 2, 1, 3, 2, 4, 2, 2, 4, 2, 3, 2, 0, 1, 1>>
      [] s = 13 -> <<1, 4, 0, 3, 2, 3, 0, 0, 2, 0, 3>>
      [] s = 2 -> <<1, 3, 2, 1, 3, 2, 2, 3, 3, 3, 3>>

(* line 126 never finding the tile taken *)
TakenNever(sts, px, py) == FALSE

(* line 126: a station placed so far stands on the tile *)
Taken(sts, px, py) ==
    \E i \in DOMAIN sts : sts[i].x = px /\ sts[i].y = py

(* lines 122-135, one pass of the loop: the draw is dropped on the base     *)
(* tile and on a taken tile, else the station is appended                   *)
PlaceStation(sts, px, py, name, id) ==
    IF px = 0 /\ py = 0 THEN sts
    ELSE IF Taken(sts, px, py) THEN sts
    ELSE Append(sts, [id |-> id, name |-> name, x |-> px, y |-> py])

(* lines 121-136: the loop over the stream from its i-th draw on *)
RECURSIVE StationLoop(_, _, _, _)
StationLoop(sts, draws, i, u) ==
    IF Len(sts) >= 3 THEN sts
    ELSE LET placed == PlaceStation(sts, draws[i], draws[i + 1],
                                    StationNames[draws[i + 2] + 1],
                                    Uuid(u, Len(sts) + 1))
         IN  IF placed = sts THEN StationLoop(sts, draws, i + 2, u)
             ELSE StationLoop(placed, draws, i + 3, u)

(* lines 111-136 *)
generate_stations(s, u) == StationLoop(<<>>, StationStream(s), 1, u)

AnomalyIds == {"a1", "a2", "a3", "a4", "a5", "a6", "a7", "a8", "a9", "a10"}

---------------------------------------------------------------------------
(* Requests (ActionRequest) *)
GameId == "g1"
games == {GameId}

Request(a, d, t, i) ==
    [game_id |-> GameId, action |-> a, direction |-> d, target_id |-> t, item |-> i]

Directions == {"n", "s", "w", "E", None}
TargetIds == {"a1", "a2", "a4", "a7", "a9", "ffff", None}
Items == {"fuel_cell", "hull_patch", "ore"}

NoRequest == Request("", None, None, None)

(* The callers whose calls of act may overlap, and a caller not in a call *)
Callers == {1, 2}
Idle == [pc |-> "idle", target_id |-> None, anomaly |-> 0, credits |-> 0]

AllRequests ==
    {Request(a, None, None, None) :
        a \in {"SCAN", "refuel", "repair", "fight", "bribe", "evade", "warp"}}
    \cup {Request("travel", d, None, None) : d \in Directions}
    \cup {Request("salvage", None, t, None) : t \in TargetIds}
    \cup {Request("trade", None, None, i) : i \in Items}

(* Responses: the HTTP status code and, for an HTTPException, its detail;   *)
(* of the view public_state returns, its `nearby` (line 177: nearby or [])  *)
public_state(nearby) == [code |-> 200, detail |-> "", nearby |-> nearby]
Ok == public_state(<<>>)
Error(c, d) == [code |-> c, detail |-> d]

---------------------------------------------------------------------------
(* current_station: the first station on the ship's tile, else NoStation *)
NoStation == [id |-> None, name |-> None, x |-> -1, y |-> -1]

current_station(sts, px, py) ==
    LET here == {i \in DOMAIN sts : sts[i].x = px /\ sts[i].y = py}
    IN  IF here = {} THEN NoStation
        ELSE sts[CHOOSE i \in here : \A j \in here : i <= j]

(* update_status with the win test forgetting the position *)
update_statusAnywhere(h, c, px, py) ==
    IF h <= 0 THEN "lost"
    ELSE IF c >= GOAL_CREDITS THEN "won"
    ELSE "active"

(* update_status with the loss test off by one *)
update_statusBelowZero(h, c, px, py) ==
    IF h < 0 THEN "lost"
    ELSE IF c >= GOAL_CREDITS /\ px = 0 /\ py = 0 THEN "won"
    ELSE "active"

(* update_status *)
update_status(h, c, px, py) ==
    IF h <= 0 THEN "lost"
    ELSE IF c >= GOAL_CREDITS /\ px = 0 /\ py = 0 THEN "won"
    ELSE "active"

---------------------------------------------------------------------------
(* new_game, with the seed and the ids of the session that is played: ids  *)
(* are opaque, so the sessions of the other draws are this one renamed      *)
Init ==
    /\ seed \in Seeds
    /\ turn = 1
    /\ x = 0
    /\ y = 0
    /\ fuel = MAX_FUEL
    /\ hull = MAX_HULL
    /\ credits = START_CREDITS
    /\ status = "active"
    /\ log = 1
    /\ anomalies = generate_anomalies(seed, "a")
    /\ stations = generate_stations(seed, "s")
    /\ pending_event = NoEvent
    /\ req = NoRequest
    /\ resp = Ok
    /\ salvaged = [i \in AnomalyIds |-> 0]
    /\ inflight = [t \in Callers |-> Idle]

---------------------------------------------------------------------------
(* act: the pieces of the handler *)

(* raise HTTPException(400, detail): nothing of the session was touched *)
Reject(detail) ==
    /\ resp' = Error(400, detail)
    /\ UNCHANGED <<gameVars, salvaged>>

(* lines 393-395: turn += 1; update_status(state); return public_state *)
Finish(nearby) ==
    /\ UNCHANGED <<seed, stations>>
    /\ turn' = turn + 1
    /\ status' = update_status(hull', credits', x', y')
    /\ resp' = public_state(nearby)

(* line 240 blocking the three resolutions as well *)
BlockedAll(pe, action) == pe # NoEvent

(* line 240 letting a scan through while an event is pending *)
BlockedButScan(pe, action) ==
    pe # NoEvent /\ action \notin {"fight", "bribe", "evade", "scan"}

(* line 240: a pending event blocks everything but its three resolutions *)
Blocked(pe, action) ==
    pe # NoEvent /\ action \notin {"fight", "bribe", "evade"}

(* line 247 without the tile test *)
VisibleAnyTile(a, px, py) == ~a.collected

(* line 247: what a scan on tile (px, py) picks up *)
Visible(a, px, py) == ~a.collected /\ a.x = px /\ a.y = py

(* lines 244-248: id, name, value and risk of the anomalies picked up *)
Nearby(anoms, px, py) ==
    LET hits == SelectSeq(anoms, LAMBDA a : Visible(a, px, py))
    IN  [i \in 1..Len(hits) |->
            [id |-> hits[i].id, name |-> hits[i].name,
             value |-> hits[i].value, risk |-> hits[i].risk]]

(* lines 243-252 *)
Scan ==
    /\ log' = log + 1
    /\ UNCHANGED <<x, y, fuel, hull, credits, anomalies, pending_event, salvaged>>
    /\ Finish(Nearby(anomalies, x, y))

(* lines 257-267 with north and south swapped *)
DeltaNorthUp(direction) ==
    CASE direction = "n" -> <<0, 1>>
      [] direction = "s" -> <<0, -1>>
      [] direction = "w" -> <<-1, 0>>
      [] direction = "e" -> <<1, 0>>
      [] OTHER -> <<0, 0>>

(* lines 257-267: the direction's step, <<0, 0>> when it is not a direction *)
Delta(direction) ==
    CASE direction = "n" -> <<0, -1>>
      [] direction = "s" -> <<0, 1>>
      [] direction = "w" -> <<-1, 0>>
      [] direction = "e" -> <<1, 0>>
      [] OTHER -> <<0, 0>>

(* line 271 without the tests against 0 *)
OutOfBoundsHigh(new_x, new_y) ==
    new_x >= MAP_SIZE \/ new_y >= MAP_SIZE

(* line 271 *)
OutOfBounds(new_x, new_y) ==
    new_x < 0 \/ new_x >= MAP_SIZE \/ new_y < 0 \/ new_y >= MAP_SIZE

(* lines 274-287: the ship moves and the two rolls are made *)
Move(new_x, new_y) ==
    \E hazard \in BOOLEAN, ambush \in BOOLEAN, threat \in 1..3 :
       /\ ambush \/ threat = 1
       /\ x' = new_x
       /\ y' = new_y
       /\ fuel' = fuel - 1
       /\ hull' = IF hazard THEN hull - 1 ELSE hull
       /\ pending_event' =
            IF ambush THEN [type |-> "pirate_ambush", threat |-> threat]
            ELSE pending_event
       /\ log' = log + 1 + (IF ambush THEN 1 ELSE 0)
       /\ UNCHANGED <<credits, anomalies, salvaged>>
       /\ Finish(<<>>)

(* Travel with the fuel taken before the bounds check *)
TravelLateCheck(r) ==
    LET direction == Lower(IF r.direction = None THEN "" ELSE r.direction)
        new_x == x + Delta(direction)[1]
        new_y == y + Delta(direction)[2]
    IN  IF fuel <= 0 THEN Reject("Out of fuel")
        ELSE IF direction \notin {"n", "s", "w", "e"} THEN Reject("Invalid direction")
        ELSE IF OutOfBounds(new_x, new_y)
             THEN /\ resp' = Error(400, "Out of bounds")
                  /\ fuel' = fuel - 1
                  /\ UNCHANGED <<seed, turn, x, y, hull, credits, status, log,
                                 anomalies, stations, pending_event, salvaged>>
        ELSE Move(new_x, new_y)

(* lines 253-287 *)
Travel(r) ==
    LET direction == Lower(IF r.direction = None THEN "" ELSE r.direction)
        new_x == x + Delta(direction)[1]
        new_y == y + Delta(direction)[2]
    IN  IF fuel <= 0 THEN Reject("Out of fuel")
        ELSE IF direction \notin {"n", "s", "w", "e"} THEN Reject("Invalid direction")
        ELSE IF OutOfBounds(new_x, new_y) THEN Reject("Out of bounds")
        ELSE Move(new_x, new_y)

(* line 292: index of the first anomaly with that id, 0 when there is none *)
FindAnomaly(anoms, target_id) ==
    LET hits == {i \in DOMAIN anoms : anoms[i].id = target_id}
    IN  IF hits = {} THEN 0 ELSE CHOOSE i \in hits : \A j \in hits : i <= j

(* line 304 left out: the anomaly stays uncollected *)
MarkCollectedNot(anoms, i) == anoms

(* line 304 *)
MarkCollected(anoms, i) == [anoms EXCEPT ![i].collected = TRUE]

(* lines 288-307 *)
Salvage(r) ==
    LET target_id == r.target_id
        i == FindAnomaly(anomalies, target_id)
    IN  IF target_id = None \/ target_id = "" THEN Reject("Missing target_id")
        ELSE IF i = 0 \/ anomalies[i].collected THEN Reject("Invalid salvage target")
        ELSE IF anomalies[i].x # x \/ anomalies[i].y # y THEN Reject("Target not in sector")
        ELSE \E snap \in BOOLEAN :
               /\ hull' = IF snap THEN hull - 1 ELSE hull
               /\ credits' = credits + anomalies[i].value
               /\ anomalies' = MarkCollected(anomalies, i)
               /\ log' = log + 1 + (IF snap THEN 1 ELSE 0)
               /\ salvaged' = [salvaged EXCEPT ![target_id] = @ + 1]
               /\ UNCHANGED <<x, y, fuel, pending_event>>
               /\ Finish(<<>>)

(* lines 320 and 341 without the cap *)
TopUpNoCap(f, gain) == f + gain

(* lines 320 and 341: fuel gained, capped at MAX_FUEL *)
TopUp(f, gain) == Min(MAX_FUEL, f + gain)

(* Trade selling fuel cells without the test of line 315 *)
TradeOnCredit(r) ==
    LET station == current_station(stations, x, y)
        item == r.item
    IN  IF station = NoStation THEN Reject("No trade station here")
        ELSE IF item = "fuel_cell" THEN
               IF fuel >= MAX_FUEL THEN Reject("Fuel already full")
               ELSE /\ credits' = credits - 4
                    /\ fuel' = TopUp(fuel, 2)
                    /\ log' = log + 1
                    /\ UNCHANGED <<x, y, hull, anomalies, pending_event, salvaged>>
                    /\ Finish(<<>>)
        ELSE IF item = "hull_patch" THEN
               IF credits < 6 THEN Reject("Not enough credits")
               ELSE IF hull >= MAX_HULL THEN Reject("Hull already full")
               ELSE /\ credits' = credits - 6
                    /\ hull' = Min(MAX_HULL, hull + 1)
                    /\ log' = log + 1
                    /\ UNCHANGED <<x, y, fuel, anomalies, pending_event, salvaged>>
                    /\ Finish(<<>>)
        ELSE Reject("Invalid trade item")

(* lines 308-332 *)
Trade(r) ==
    LET station == current_station(stations, x, y)
        item == r.item
    IN  IF station = NoStation THEN Reject("No trade station here")
        ELSE IF item = "fuel_cell" THEN
               IF credits < 4 THEN Reject("Not enough credits")
               ELSE IF fuel >= MAX_FUEL THEN Reject("Fuel already full")
               ELSE /\ credits' = credits - 4
                    /\ fuel' = TopUp(fuel, 2)
                    /\ log' = log + 1
                    /\ UNCHANGED <<x, y, hull, anomalies, pending_event, salvaged>>
                    /\ Finish(<<>>)
        ELSE IF item = "hull_patch" THEN
               IF credits < 6 THEN Reject("Not enough credits")
               ELSE IF hull >= MAX_HULL THEN Reject("Hull already full")
               ELSE /\ credits' = credits - 6
                    /\ hull' = Min(MAX_HULL, hull + 1)
                    /\ log' = log + 1
                    /\ UNCHANGED <<x, y, fuel, anomalies, pending_event, salvaged>>
                    /\ Finish(<<>>)
        ELSE Reject("Invalid trade item")

(* Refuel without the test of line 334 *)
RefuelAnywhere ==
    IF credits < 5 THEN Reject("Not enough credits")
    ELSE IF fuel >= MAX_FUEL THEN Reject("Fuel already full")
    ELSE /\ credits' = credits - 5
         /\ fuel' = TopUp(fuel, 3)
         /\ log' = log + 1
         /\ UNCHANGED <<x, y, hull, anomalies, pending_event, salvaged>>
         /\ Finish(<<>>)

(* lines 333-342 *)
Refuel ==
    IF x # 0 \/ y # 0 THEN Reject("Refuel only at base")
    ELSE IF credits < 5 THEN Reject("Not enough credits")
    ELSE IF fuel >= MAX_FUEL THEN Reject("Fuel already full")
    ELSE /\ credits' = credits - 5
         /\ fuel' = TopUp(fuel, 3)
         /\ log' = log + 1
         /\ UNCHANGED <<x, y, hull, anomalies, pending_event, salvaged>>
         /\ Finish(<<>>)

(* Repair without the cap of line 351 *)
RepairUncapped ==
    IF x # 0 \/ y # 0 THEN Reject("Repair only at base")
    ELSE IF credits < 8 THEN Reject("Not enough credits")
    ELSE IF hull >= MAX_HULL THEN Reject("Hull already full")
    ELSE /\ credits' = credits - 8
         /\ hull' = hull + 2
         /\ log' = log + 1
         /\ UNCHANGED <<x, y, fuel, anomalies, pending_event, salvaged>>
         /\ Finish(<<>>)

(* lines 343-352 *)
Repair ==
    IF x # 0 \/ y # 0 THEN Reject("Repair only at base")
    ELSE IF credits < 8 THEN Reject("Not enough credits")
    ELSE IF hull >= MAX_HULL THEN Reject("Hull already full")
    ELSE /\ credits' = credits - 8
         /\ hull' = Min(MAX_HULL, hull + 2)
         /\ log' = log + 1
         /\ UNCHANGED <<x, y, fuel, anomalies, pending_event, salvaged>>
         /\ Finish(<<>>)

(* line 363 taking everything *)
FightLossAll(c, threat) == c

(* line 363 without the min *)
FightLossFlat(c, threat) == threat * 4

(* line 363: what a lost fight costs *)
FightLoss(c, threat) == Min(c, threat * 4)

(* lines 353-367 *)
Fight ==
    IF pending_event = NoEvent THEN Reject("No active threat")
    ELSE LET threat == pending_event.threat IN
         \E win \in BOOLEAN :
           /\ IF win
              THEN /\ credits' = credits + threat * 6
                   /\ hull' = hull
              ELSE /\ hull' = hull - threat
                   /\ credits' = credits - FightLoss(credits, threat)
           /\ pending_event' = NoEvent
           /\ log' = log + 1
           /\ UNCHANGED <<x, y, fuel, anomalies, salvaged>>
           /\ Finish(<<>>)

(* lines 368-377 *)
Bribe ==
    IF pending_event = NoEvent THEN Reject("No active threat")
    ELSE LET cost == pending_event.threat * 8 IN
         IF credits < cost THEN Reject("Not enough credits")
         ELSE /\ credits' = credits - cost
              /\ pending_event' = NoEvent
              /\ log' = log + 1
              /\ UNCHANGED <<x, y, fuel, hull, anomalies, salvaged>>
              /\ Finish(<<>>)

(* lines 378-389 *)
Evade ==
    IF pending_event = NoEvent THEN Reject("No active threat")
    ELSE IF fuel <= 0 THEN Reject("Out of fuel")
    ELSE \E hit \in BOOLEAN :
           /\ fuel' = fuel - 1
           /\ hull' = IF hit THEN hull - 1 ELSE hull
           /\ pending_event' = NoEvent
           /\ log' = log + 1
           /\ UNCHANGED <<x, y, credits, anomalies, salvaged>>
           /\ Finish(<<>>)

(* line 233 testing for a lost session only: a won one keeps playing *)
IsActiveUnlessLost(st) == st # "lost"

(* line 233 with the test left out: a finished session keeps playing *)
IsActiveAlways(st) == st \in {"active", "won", "lost"}

(* line 233 *)
IsActive(st) == st = "active"

(* lines 227-395: the handler of POST /api/act for request r, run from its *)
(* first line to its return with no other call in between                  *)
act(r) ==
    /\ req' = r
    /\ UNCHANGED inflight
    /\ IF r.game_id \notin games
       THEN /\ resp' = Error(404, "Game not found")
            /\ UNCHANGED <<gameVars, salvaged>>
       ELSE IF ~IsActive(status)
       THEN /\ resp' = Ok
            /\ UNCHANGED <<gameVars, salvaged>>
       ELSE LET action == Lower(r.action) IN
            IF Blocked(pending_event, action) THEN Reject("Resolve the ambush first")
            ELSE CASE action = "scan" -> Scan
                   [] action = "travel" -> Travel(r)
                   [] action = "salvage" -> Salvage(r)
                   [] action = "trade" -> Trade(r)
                   [] action = "refuel" -> Refuel
                   [] action = "repair" -> Repair
                   [] action = "fight" -> Fight
                   [] action = "bribe" -> Bribe
                   [] action = "evade" -> Evade
                   [] OTHER -> Reject("Unknown action")

---------------------------------------------------------------------------
(* Vocabulary: the session is still played; a response is an error *)
Active == status = "active"
Rejected(rp) == rp.code # 200
ActionOf(r) == Lower(r.action)
AtBase == x = 0 /\ y = 0

(* The anomalies that lie uncollected on the ship's tile *)
OnTile == {i \in DOMAIN anomalies :
             ~anomalies[i].collected /\ anomalies[i].x = x /\ anomalies[i].y = y}

(* The requests a client submits, one disjunct per action name *)
ScanRequest ==
    /\ turn < MaxTurn
    /\ act(Request("SCAN", None, None, None))
TravelRequest ==
    /\ turn < MaxTurn
    /\ \E d \in Directions : act(Request("travel", d, None, None))
SalvageRequest ==
    /\ turn < MaxTurn
    /\ \E t \in TargetIds : act(Request("salvage", None, t, None))
TradeRequest ==
    /\ turn < MaxTurn
    /\ \E i \in Items : act(Request("trade", None, None, i))
RefuelRequest ==
    /\ turn < MaxTurn
    /\ act(Request("refuel", None, None, None))
RepairRequest ==
    /\ turn < MaxTurn
    /\ act(Request("repair", None, None, None))
FightRequest ==
    /\ turn < MaxTurn
    /\ act(Request("fight", None, None, None))
BribeRequest ==
    /\ turn < MaxTurn
    /\ act(Request("bribe", None, None, None))
EvadeRequest ==
    /\ turn < MaxTurn
    /\ act(Request("evade", None, None, None))
UnknownRequest ==
    /\ turn < MaxTurn
    /\ act(Request("warp", None, None, None))
StrayRequest ==
    /\ turn < MaxTurn
    /\ act([Request("SCAN", None, None, None) EXCEPT !.game_id = "g0"])

Next ==
    \/ ScanRequest
    \/ TravelRequest
    \/ SalvageRequest
    \/ TradeRequest
    \/ RefuelRequest
    \/ RepairRequest
    \/ FightRequest
    \/ BribeRequest
    \/ EvadeRequest
    \/ UnknownRequest
    \/ StrayRequest

Spec == Init /\ [][Next]_vars

(* A raiding client: it shuttles between the base and the tile south of it, *)
(* salvages what lies uncollected on its tile and fights every ambush;     *)
(* once the game is over it keeps sending requests of every kind.          *)
RaidTravel ==
    /\ Active
    /\ pending_event = NoEvent
    /\ turn < MaxRaidTurn
    /\ \E d \in {"n", "s"} :
         /\ d = "s" <=> y = 0
         /\ act(Request("travel", d, None, None))
RaidSalvage ==
    /\ Active
    /\ pending_event = NoEvent
    /\ turn < MaxRaidTurn
    /\ \E i \in DOMAIN anomalies :
         /\ ~anomalies[i].collected
         /\ anomalies[i].x = x /\ anomalies[i].y = y
         /\ act(Request("salvage", None, anomalies[i].id, None))
RaidFight ==
    /\ Active
    /\ pending_event # NoEvent
    /\ turn < MaxRaidTurn
    /\ act(Request("fight", None, None, None))
RaidPoke ==
    /\ ~Active
    /\ turn < MaxRaidTurn
    /\ \E r \in AllRequests : act(r)

NextRaid == RaidTravel \/ RaidSalvage \/ RaidFight \/ RaidPoke

SpecRaid == Init /\ [][NextRaid]_vars

(* A drifting client: it burns its fuel up and down the western column,    *)
(* steering off the map at its ends and to the west, evades every ambush   *)
(* and asks for fuel at the base and at the station south of it.           *)
DriftTravel ==
    /\ turn < MaxDriftTurn
    /\ \E d \in {"n", "s", "w"} : act(Request("travel", d, None, None))
DriftEvade ==
    /\ turn < MaxDriftTurn
    /\ act(Request("evade", None, None, None))
DriftTrade ==
    /\ turn < MaxDriftTurn
    /\ act(Request("trade", None, None, "fuel_cell"))
DriftRefuel ==
    /\ turn < MaxDriftTurn
    /\ act(Request("refuel", None, None, None))

NextDrift == DriftTravel \/ DriftEvade \/ DriftTrade \/ DriftRefuel

SpecDrift == Init /\ [][NextDrift]_vars

(* The session is stranded: active, nothing pending, the tank empty, and    *)
(* the ship on a tile with no base, no station and nothing left to salvage  *)
Stranded ==
    /\ Active
    /\ pending_event = NoEvent
    /\ fuel = 0
    /\ ~AtBase
    /\ current_station(stations, x, y) = NoStation
    /\ OnTile = {}

(* The drifting client, who tries every request once it is stranded *)
StrandPoke ==
    /\ Stranded
    /\ turn < MaxStrandTurn
    /\ \E r \in AllRequests : act(r)

NextStrand == DriftTravel \/ DriftEvade \/ DriftTrade \/ DriftRefuel \/ StrandPoke

SpecStrand == Init /\ [][NextStrand]_vars

(* A brawling client: it shuttles, salvages and fights as the raiding one   *)
(* does, and asks for a repair or a hull patch whenever it likes, also      *)
(* during an ambush and after the game is over.                             *)
BrawlTravel ==
    /\ Active
    /\ pending_event = NoEvent
    /\ turn < MaxBrawlTurn
    /\ \E d \in {"n", "s"} :
         /\ d = "s" <=> y = 0
         /\ act(Request("travel", d, None, None))
BrawlSalvage ==
    /\ Active
    /\ pending_event = NoEvent
    /\ turn < MaxBrawlTurn
    /\ \E i \in DOMAIN anomalies :
         /\ ~anomalies[i].collected
         /\ anomalies[i].x = x /\ anomalies[i].y = y
         /\ act(Request("salvage", None, anomalies[i].id, None))
BrawlFight ==
    /\ Active
    /\ pending_event # NoEvent
    /\ turn < MaxBrawlTurn
    /\ act(Request("fight", None, None, None))
BrawlRepair ==
    /\ turn < MaxBrawlTurn
    /\ act(Request("repair", None, None, None))
BrawlPatch ==
    /\ turn < MaxBrawlTurn
    /\ act(Request("trade", None, None, "hull_patch"))

NextBrawl == BrawlTravel \/ BrawlSalvage \/ BrawlFight \/ BrawlRepair \/ BrawlPatch

SpecBrawl == Init /\ [][NextBrawl]_vars

(* new_game called again: the session just created takes the place of the  *)
(* one before it, with the seed the clock gives and fresh uuids             *)
NewGame ==
    \E s \in ClockSeeds, ua \in AnomalyUuids, us \in StationUuids :
       /\ seed' = s
       /\ turn' = 1
       /\ x' = 0
       /\ y' = 0
       /\ fuel' = MAX_FUEL
       /\ hull' = MAX_HULL
       /\ credits' = START_CREDITS
       /\ status' = "active"
       /\ log' = 1
       /\ anomalies' = generate_anomalies(s, ua)
       /\ stations' = generate_stations(s, us)
       /\ pending_event' = NoEvent
       /\ req' = NoRequest
       /\ resp' = Ok
       /\ salvaged' = [i \in {Uuid(ua, k) : k \in 1..10} |-> 0]
       /\ UNCHANGED inflight

SpecGen == Init /\ [][NewGame]_vars

(* generate_stations step by step, inside new_game: the session's other     *)
(* fields are the arguments GameState is about to get; every pass of the    *)
(* loop draws a tile and, when it keeps it, a name, whatever the seed       *)
InitStations ==
    /\ seed \in Seeds
    /\ turn = 1
    /\ x = 0
    /\ y = 0
    /\ fuel = MAX_FUEL
    /\ hull = MAX_HULL
    /\ credits = START_CREDITS
    /\ status = "active"
    /\ log = 1
    /\ anomalies = generate_anomalies(seed, "a")
    /\ stations = <<>>
    /\ pending_event = NoEvent
    /\ req = NoRequest
    /\ resp = Ok
    /\ salvaged = [i \in AnomalyIds |-> 0]
    /\ inflight = [t \in Callers |-> Idle]

StationPass ==
    /\ Len(stations) < 3
    /\ \E px \in 0..(MAP_SIZE - 1), py \in 0..(MAP_SIZE - 1),
          n \in DOMAIN StationNames :
         stations' = PlaceStation(stations, px, py, StationNames[n],
                                  Uuid("s", Len(stations) + 1))
    /\ UNCHANGED <<seed, turn, x, y, fuel, hull, credits, status, log,
                   anomalies, pending_event, req, resp, salvaged, inflight>>

SpecStations == InitStations /\ [][StationPass]_vars

(* Two callers salvage on the same session at the same time.  Each call of  *)
(* act runs in its own worker thread and takes no lock: the steps below are *)
(* the handler's statements in their order, and the steps of the two calls  *)
(* interleave freely.                                                       *)
RaceTargets == {"a4", "a7", "a1"}

(* raise HTTPException(400, detail) in the call of caller t *)
RaceReject(t, detail) ==
    /\ resp' = Error(400, detail)
    /\ inflight' = [inflight EXCEPT ![t] = Idle]

(* lines 229-241: the session is looked up, found active and not blocked *)
RaceEnter(t) ==
    /\ inflight[t].pc = "idle"
    /\ turn < MaxRaceTurn
    /\ \E target_id \in RaceTargets :
         /\ req' = Request("salvage", None, target_id, None)
         /\ IF ~IsActive(status)
            THEN resp' = Ok /\ UNCHANGED inflight
            ELSE IF Blocked(pending_event, "salvage")
            THEN RaceReject(t, "Resolve the ambush first")
            ELSE /\ inflight' = [inflight EXCEPT
                        ![t] = [Idle EXCEPT !.pc = "entered", !.target_id = target_id]]
                 /\ UNCHANGED resp
    /\ UNCHANGED <<gameVars, salvaged>>

(* lines 289-296 turning the call down when another call holds the anomaly *)
RaceValidateExclusive(t) ==
    /\ inflight[t].pc = "entered"
    /\ LET target_id == inflight[t].target_id
           i == FindAnomaly(anomalies, target_id)
       IN  IF target_id = None \/ target_id = "" THEN RaceReject(t, "Missing target_id")
           ELSE IF i = 0 \/ anomalies[i].collected
                   \/ \E u \in Callers \ {t} : inflight[u].anomaly = i
                THEN RaceReject(t, "Invalid salvage target")
           ELSE IF anomalies[i].x # x \/ anomalies[i].y # y
                THEN RaceReject(t, "Target not in sector")
           ELSE /\ inflight' = [inflight EXCEPT ![t].pc = "validated", ![t].anomaly = i]
                /\ UNCHANGED resp
    /\ UNCHANGED <<gameVars, salvaged, req>>

(* lines 289-296: the target is looked up and tested *)
RaceValidate(t) ==
    /\ inflight[t].pc = "entered"
    /\ LET target_id == inflight[t].target_id
           i == FindAnomaly(anomalies, target_id)
       IN  IF target_id = None \/ target_id = "" THEN RaceReject(t, "Missing target_id")
           ELSE IF i = 0 \/ anomalies[i].collected
                THEN RaceReject(t, "Invalid salvage target")
           ELSE IF anomalies[i].x # x \/ anomalies[i].y # y
                THEN RaceReject(t, "Target not in sector")
           ELSE /\ inflight' = [inflight EXCEPT ![t].pc = "validated", ![t].anomaly = i]
                /\ UNCHANGED resp
    /\ UNCHANGED <<gameVars, salvaged, req>>

(* lines 298-301: the snap-back roll *)
RaceRoll(t) ==
    /\ inflight[t].pc = "validated"
    /\ \E snap \in BOOLEAN :
         /\ hull' = IF snap THEN hull - 1 ELSE hull
         /\ log' = log + (IF snap THEN 1 ELSE 0)
    /\ inflight' = [inflight EXCEPT ![t].pc = "rolled"]
    /\ UNCHANGED <<seed, turn, x, y, fuel, credits, status, anomalies, stations,
                   pending_event, req, resp, salvaged>>

(* line 303, state.credits += value: the read *)
RaceLoad(t) ==
    /\ inflight[t].pc = "rolled"
    /\ inflight' = [inflight EXCEPT ![t].pc = "loaded", ![t].credits = credits]
    /\ UNCHANGED <<gameVars, req, resp, salvaged>>

(* line 303, state.credits += value: the write *)
RaceStore(t) ==
    /\ inflight[t].pc = "loaded"
    /\ credits' = inflight[t].credits + anomalies[inflight[t].anomaly].value
    /\ salvaged' = [salvaged EXCEPT ![inflight[t].target_id] = @ + 1]
    /\ inflight' = [inflight EXCEPT ![t].pc = "stored"]
    /\ UNCHANGED <<seed, turn, x, y, fuel, hull, status, log, anomalies, stations,
                   pending_event, req, resp>>

(* lines 304-307 *)
RaceMark(t) ==
    /\ inflight[t].pc = "stored"
    /\ anomalies' = MarkCollected(anomalies, inflight[t].anomaly)
    /\ log' = log + 1
    /\ inflight' = [inflight EXCEPT ![t].pc = "marked"]
    /\ UNCHANGED <<seed, turn, x, y, fuel, hull, credits, status, stations,
                   pending_event, req, resp, salvaged>>

(* lines 393-395 *)
RaceReturn(t) ==
    /\ inflight[t].pc = "marked"
    /\ turn' = turn + 1
    /\ status' = update_status(hull, credits, x, y)
    /\ resp' = public_state(<<>>)
    /\ inflight' = [inflight EXCEPT ![t] = Idle]
    /\ UNCHANGED <<seed, x, y, fuel, hull, credits, log, anomalies, stations,
                   pending_event, req, salvaged>>

NextRace ==
    \E t \in Callers :
       \/ RaceEnter(t)
       \/ RaceValidate(t)
       \/ RaceRoll(t)
       \/ RaceLoad(t)
       \/ RaceStore(t)
       \/ RaceMark(t)
       \/ RaceReturn(t)

SpecRace == Init /\ [][NextRace]_vars

---------------------------------------------------------------------------

(* C1 as stated: every request is either accepted, advancing the turn, or  *)
(* rejected with an error that leaves the whole session state unchanged.   *)
C1_AtomicEveryState ==
    [][ \/ ~Rejected(resp') /\ turn' = turn + 1
        \/ Rejected(resp') /\ UNCHANGED gameVars ]_vars

(* C1 (amended): on an active session every request is either accepted,    *)
(* which advances the turn by one, or rejected with an error that leaves   *)
(* turn, position, fuel, hull, credits, status, log, anomalies and         *)
(* pendingEvent unchanged; on a won or lost session a request returns      *)
(* without an error and changes nothing.                                   *)
C1_Atomic ==
    [][ \/ Active /\ ~Rejected(resp') /\ turn' = turn + 1
        \/ Rejected(resp') /\ UNCHANGED gameVars
        \/ ~Active /\ ~Rejected(resp') /\ UNCHANGED gameVars ]_vars

C1_Witness ==
    /\ Active
    /\ turn > 1
    /\ req.action = "travel"
    /\ resp = Error(400, "Out of bounds")

(* C2: the turn counter starts at 1; a request accepted on an active       *)
(* session raises it by exactly 1, a rejected request and a request on a   *)
(* won or lost session leave it as it is.                                  *)
C2_Turn ==
    /\ turn = 1
    /\ [][ IF Active /\ ~Rejected(resp') THEN turn' = turn + 1
                                          ELSE turn' = turn ]_vars

C2_Witness ==
    /\ status = "won"
    /\ turn = 4
    /\ req.action = "warp"
    /\ ~Rejected(resp)

(* C3 as stated: after every resolved action, status is won if and only if *)
(* credits >= 120 and the ship is on (0,0).                                *)
C3_WonIffGoalAtBase ==
    status = "won" <=> (credits >= GOAL_CREDITS /\ AtBase)

(* C3 (amended): status is won if and only if credits >= 120, the ship is  *)
(* on (0,0) and hull > 0; 120 credits on another tile leave the session    *)
(* non-won until the ship is back on (0,0).                                *)
C3_WonIff ==
    status = "won" <=> (credits >= GOAL_CREDITS /\ AtBase /\ hull > 0)

C3_Witness ==
    /\ status = "won"
    /\ anomalies[1].collected
    /\ ~anomalies[4].collected
    /\ req.action = "travel"

(* C4: status is lost exactly when hull <= 0, and once status is lost no   *)
(* request changes status or hull again.                                   *)
C4_Lost ==
    /\ [](status = "lost" <=> hull <= 0)
    /\ [][status = "lost" => status' = "lost" /\ hull' = hull]_vars

C4_Witness ==
    /\ status = "lost"
    /\ hull <= 0
    /\ req.action = "repair"
    /\ ~Rejected(resp)

(* C5: on a won or lost session every request for it, whatever its action  *)
(* name and whether or not an event is pending, returns without an error   *)
(* and leaves every field of the session unchanged.                        *)
C5_SoftTerminal ==
    [][ (~Active /\ req'.game_id = GameId)
            => (~Rejected(resp') /\ UNCHANGED gameVars) ]_vars

C5_Witness ==
    /\ status = "lost"
    /\ pending_event # NoEvent
    /\ req.action = "fight"
    /\ ~Rejected(resp)

(* The request asks to salvage an anomaly that is already collected *)
SalvageOfCollected(r) ==
    /\ r.game_id = GameId
    /\ ActionOf(r) = "salvage"
    /\ FindAnomaly(anomalies, r.target_id) # 0
    /\ anomalies[FindAnomaly(anomalies, r.target_id)].collected

(* The request asks to travel to a tile outside the map *)
TravelOffMap(r) ==
    LET step == Delta(Lower(IF r.direction = None THEN "" ELSE r.direction))
    IN  /\ r.game_id = GameId
        /\ ActionOf(r) = "travel"
        /\ step # <<0, 0>>
        /\ OutOfBounds(x + step[1], y + step[2])

Resolving == {"fight", "bribe", "evade"}

(* C6: pendingEvent is null or one ambush of threat 1..3; while one is     *)
(* pending on an active session every action other than fight, bribe and   *)
(* evade is rejected; every accepted fight, bribe or evade leaves          *)
(* pendingEvent null.                                                      *)
C6_Exclusive ==
    /\ [](pending_event = NoEvent
            \/ (pending_event.type = "pirate_ambush" /\ pending_event.threat \in 1..3))
    /\ [][ (Active /\ pending_event # NoEvent /\ ActionOf(req') \notin Resolving)
              => (Rejected(resp') /\ pending_event' = pending_event) ]_vars
    /\ [][ (Active /\ ~Rejected(resp') /\ ActionOf(req') \in Resolving)
              => pending_event' = NoEvent ]_vars

C6_Witness ==
    /\ Active
    /\ pending_event # NoEvent
    /\ req.action = "salvage"
    /\ resp = Error(400, "Resolve the ambush first")

(* C7 as stated: every anomaly id is salvaged successfully at most once, a *)
(* salvage request for an already collected anomaly is rejected, and no    *)
(* collected flag goes from true back to false.                            *)
C7_SalvageOnceRejected ==
    /\ [](\A i \in DOMAIN anomalies : salvaged[anomalies[i].id] <= 1)
    /\ [][ SalvageOfCollected(req') => Rejected(resp') ]_vars
    /\ [][ \A i \in DOMAIN anomalies :
              anomalies[i].collected => anomalies'[i].collected ]_vars

(* C7 (amended): every anomaly id is salvaged successfully at most once    *)
(* (it is collected exactly when its value was credited once), a salvage   *)
(* request for an already collected anomaly is never accepted (rejected    *)
(* on an active session, a no-op on a won or lost one) and changes         *)
(* nothing, and no collected flag goes from true back to false.            *)
C7_SalvageOnce ==
    /\ [](\A i \in DOMAIN anomalies :
            salvaged[anomalies[i].id] = (IF anomalies[i].collected THEN 1 ELSE 0))
    /\ [][ SalvageOfCollected(req')
              => ((Active <=> Rejected(resp')) /\ UNCHANGED <<gameVars, salvaged>>) ]_vars
    /\ [][ \A i \in DOMAIN anomalies :
              anomalies[i].collected => anomalies'[i].collected ]_vars

C7_Witness ==
    /\ Active
    /\ anomalies[4].collected
    /\ req.target_id = "a4"
    /\ resp = Error(400, "Invalid salvage target")

(* C8 as stated: 0 <= fuel <= MAX_FUEL; travel and evade are rejected when *)
(* fuel is 0; a trade for fuel_cell or a refuel requested at fuel =        *)
(* MAX_FUEL is rejected.                                                   *)
C8_FuelRejected ==
    /\ [](fuel \in 0..MAX_FUEL)
    /\ [][ (fuel = 0 /\ ActionOf(req') \in {"travel", "evade"})
              => Rejected(resp') ]_vars
    /\ [][ (fuel = MAX_FUEL
              /\ (ActionOf(req') = "refuel"
                    \/ (ActionOf(req') = "trade" /\ req'.item = "fuel_cell")))
              => Rejected(resp') ]_vars

(* C8 (amended): 0 <= fuel <= MAX_FUEL; on an active session travel and    *)
(* evade are rejected when fuel is 0, and a trade for fuel_cell or a       *)
(* refuel requested at fuel = MAX_FUEL is rejected; none of them changes   *)
(* fuel.                                                                   *)
C8_Fuel ==
    /\ [](fuel \in 0..MAX_FUEL)
    /\ [][ (fuel = 0 /\ ActionOf(req') \in {"travel", "evade"})
              => ((Active => Rejected(resp')) /\ fuel' = fuel) ]_vars
    /\ [][ (fuel = MAX_FUEL
              /\ (ActionOf(req') = "refuel"
                    \/ (ActionOf(req') = "trade" /\ req'.item = "fuel_cell")))
              => ((Active => Rejected(resp')) /\ fuel' = fuel) ]_vars

C8_Witness ==
    /\ Active
    /\ fuel = 0
    /\ req.action = "travel"
    /\ resp = Error(400, "Out of fuel")

(* C9 as stated: both coordinates stay within 0..MAP_SIZE-1; a travel      *)
(* whose destination is outside the map is rejected with the bounds error  *)
(* and neither moves the ship nor consumes fuel.                           *)
C9_BoundsError ==
    /\ [](x \in 0..(MAP_SIZE - 1) /\ y \in 0..(MAP_SIZE - 1))
    /\ [][ TravelOffMap(req')
              => (resp' = Error(400, "Out of bounds")
                  /\ x' = x /\ y' = y /\ fuel' = fuel) ]_vars

(* C9 (amended): both coordinates stay within 0..MAP_SIZE-1; a travel      *)
(* whose destination is outside the map neither moves the ship nor         *)
(* consumes fuel; on an active session it is rejected, with the bounds     *)
(* error when no event is pending and fuel > 0.                            *)
C9_Bounds ==
    /\ [](x \in 0..(MAP_SIZE - 1) /\ y \in 0..(MAP_SIZE - 1))
    /\ [][ TravelOffMap(req')
              => /\ x' = x /\ y' = y /\ fuel' = fuel
                 /\ Active => Rejected(resp')
                 /\ (Active /\ pending_event = NoEvent /\ fuel > 0)
                       => resp' = Error(400, "Out of bounds") ]_vars

C9_Witness ==
    /\ y = MAP_SIZE - 1
    /\ req.direction = "s"
    /\ resp = Error(400, "Out of bounds")

(* C10: credits never go below 0, whatever trade, refuel, repair, bribe    *)
(* and fight (a lost fight included) do.                                   *)
C10_Credits == credits >= 0

C10_Witness ==
    /\ credits = 0
    /\ hull < MAX_HULL - 3
    /\ req.action = "fight"

(* C11: world generation is a function of the seed alone: two generations   *)
(* with the same seed yield the same anomaly list and the same station      *)
(* list, in the same order and equal in every field, the id included.       *)
C11_SameSeedSameWorld ==
    [][ seed' = seed => (anomalies' = anomalies /\ stations' = stations) ]_vars

(* C12: whenever generate_stations returns (the loop has placed 3), the     *)
(* stations are exactly 3, all within the map, on pairwise distinct tiles   *)
(* and none on the base tile (0,0); so no session has a tile that is both   *)
(* base and station.                                                        *)
C12_Stations ==
    Len(stations) >= 3 =>
       /\ Len(stations) = 3
       /\ \A i \in 1..3 :
            /\ stations[i].x \in 0..(MAP_SIZE - 1)
            /\ stations[i].y \in 0..(MAP_SIZE - 1)
            /\ ~(stations[i].x = 0 /\ stations[i].y = 0)
       /\ \A i, j \in 1..3 :
            i # j => (stations[i].x # stations[j].x \/ stations[i].y # stations[j].y)
       /\ current_station(stations, 0, 0) = NoStation

C12_Witness ==
    stations = generate_stations(149039, "s")

(* C13: an accepted scan returns in `nearby` exactly the anomalies that are *)
(* uncollected and on the ship's tile, each with its id, name, value and    *)
(* risk; every other response that is not an error (an accepted action      *)
(* other than scan, a request on a won or lost session) has an empty        *)
(* `nearby`.                                                                *)
C13_Nearby ==
    [][ ~Rejected(resp') =>
          IF Active /\ ActionOf(req') = "scan"
          THEN /\ Len(resp'.nearby) = Cardinality(OnTile)
               /\ {resp'.nearby[k].id : k \in DOMAIN resp'.nearby}
                     = {anomalies[i].id : i \in OnTile}
               /\ \A k \in DOMAIN resp'.nearby : \E i \in OnTile :
                     /\ resp'.nearby[k].id = anomalies[i].id
                     /\ resp'.nearby[k].name = anomalies[i].name
                     /\ resp'.nearby[k].value = anomalies[i].value
                     /\ resp'.nearby[k].risk = anomalies[i].risk
          ELSE resp'.nearby = <<>> ]_vars

C13_Witness ==
    /\ ActionOf(req) = "scan"
    /\ ~Rejected(resp)
    /\ Len(resp.nearby) = 2
    /\ AtBase
    /\ anomalies[4].collected

(* Caller t has passed the tests of lines 293-296 for anomaly i and has not *)
(* yet marked it collected                                                  *)
InWindow(t, i) ==
    /\ inflight[t].anomaly = i
    /\ inflight[t].pc \in {"validated", "rolled", "loaded", "stored"}

(* C14: act takes no per-session lock: while one call is between its       *)
(* validation of an anomaly and its marking of it, and the anomaly is still *)
(* uncollected, the validation of the same anomaly by another call on the   *)
(* same session passes as well (and so, in the witness, both add the        *)
(* anomaly's value to credits).                                             *)
C14_Race ==
    [][ \A t \in Callers : \A u \in Callers \ {t} :
          LET i == FindAnomaly(anomalies, inflight[u].target_id) IN
          (/\ inflight[u].pc = "entered"
           /\ inflight'[u].pc # "entered"
           /\ InWindow(t, i)
           /\ ~anomalies[i].collected)
             => inflight'[u].pc = "validated" ]_vars

C14_Witness ==
    /\ salvaged["a4"] = 2
    /\ salvaged["a7"] = 0
    /\ credits = START_CREDITS + 2 * anomalies[4].value
    /\ \A t \in Callers : inflight[t] = Idle

(* The request asks to trade for fuel cells the session cannot pay *)
UnaffordableFuel(r) ==
    /\ r.game_id = GameId
    /\ ActionOf(r) = "trade"
    /\ r.item = "fuel_cell"
    /\ credits < 4

(* C15 as stated: in an active session with no pending event a trade for    *)
(* fuel_cell requested while credits < 4 is rejected with "Not enough       *)
(* credits".                                                                *)
C15_NotEnoughCredits ==
    [][ (Active /\ pending_event = NoEvent /\ UnaffordableFuel(req'))
            => resp' = Error(400, "Not enough credits") ]_vars

(* C15 (amended): in an active session with no pending event a trade for    *)
(* fuel_cell requested while credits < 4 is rejected and changes nothing:   *)
(* with "Not enough credits" when the ship is on a station tile, with "No   *)
(* trade station here" when it is not.                                      *)
C15_Unaffordable ==
    [][ (Active /\ pending_event = NoEvent /\ UnaffordableFuel(req'))
            => /\ UNCHANGED gameVars
               /\ resp' = IF current_station(stations, x, y) # NoStation
                          THEN Error(400, "Not enough credits")
                          ELSE Error(400, "No trade station here") ]_vars

C15_Witness ==
    /\ Active
    /\ pending_event = NoEvent
    /\ credits < 4
    /\ fuel < MAX_FUEL
    /\ current_station(stations, x, y) # NoStation
    /\ req.action = "trade"
    /\ resp = Error(400, "Not enough credits")

(* The request r is resolved on an active session without an error *)
Accepted(r, rp) ==
    /\ Active
    /\ r.game_id = GameId
    /\ ~Rejected(rp)

(* C16: an accepted travel moves the ship by exactly one tile in the        *)
(* requested direction (n: y-1, s: y+1, w: x-1, e: x+1), takes exactly 1    *)
(* fuel, lowers hull by 0 or 1, leaves credits and every anomaly as they    *)
(* are, and leaves pendingEvent null or sets an ambush of threat 1..3; no   *)
(* action but an accepted travel turns pendingEvent from null to non-null.  *)
C16_Travel ==
    /\ [][ (Accepted(req', resp') /\ ActionOf(req') = "travel") =>
             LET d == Lower(req'.direction) IN
             /\ d \in {"n", "s", "w", "e"}
             /\ d = "n" => (x' = x /\ y' = y - 1)
             /\ d = "s" => (x' = x /\ y' = y + 1)
             /\ d = "w" => (x' = x - 1 /\ y' = y)
             /\ d = "e" => (x' = x + 1 /\ y' = y)
             /\ fuel' = fuel - 1
             /\ hull' \in {hull, hull - 1}
             /\ credits' = credits
             /\ anomalies' = anomalies
             /\ pending_event = NoEvent
             /\ \/ pending_event' = NoEvent
                \/ /\ pending_event'.type = "pirate_ambush"
                   /\ pending_event'.threat \in 1..3 ]_vars
    /\ [][ (pending_event = NoEvent /\ pending_event' # NoEvent)
              => (Accepted(req', resp') /\ ActionOf(req') = "travel") ]_vars

C16_Witness ==
    /\ ActionOf(req) = "travel"
    /\ req.direction = "E"
    /\ ~Rejected(resp)
    /\ x = 1 /\ y = 1
    /\ fuel = MAX_FUEL - 2
    /\ hull = MAX_HULL - 1
    /\ pending_event # NoEvent
    /\ pending_event.threat = 3

(* C17: an accepted fight against a pending threat t has exactly one of two *)
(* outcomes: credits rise by 6*t and hull stays, or hull falls by t and     *)
(* credits fall by min(credits, 4*t); either way position and fuel stay     *)
(* and pendingEvent is cleared.                                             *)
C17_Fight ==
    [][ (Accepted(req', resp') /\ ActionOf(req') = "fight") =>
          LET t == pending_event.threat
              won == credits' = credits + 6 * t /\ hull' = hull
              beaten == hull' = hull - t /\ credits' = credits - Min(credits, 4 * t)
          IN  /\ pending_event # NoEvent
              /\ won \/ beaten
              /\ ~(won /\ beaten)
              /\ x' = x /\ y' = y
              /\ fuel' = fuel
              /\ pending_event' = NoEvent ]_vars

C17_Witness ==
    /\ ActionOf(req) = "fight"
    /\ ~Rejected(resp)
    /\ turn = 5
    /\ credits = 0
    /\ hull = MAX_HULL - 6
    /\ pending_event = NoEvent

(* The request asks for hull: a repair or a trade for hull_patch *)
AsksForHull(r) ==
    /\ r.game_id = GameId
    /\ \/ ActionOf(r) = "repair"
       \/ ActionOf(r) = "trade" /\ r.item = "hull_patch"

(* C18 as stated: -2 <= hull <= MAX_HULL in every state, hull >= 1 whenever *)
(* status is active, one action lowers hull by at most 3, and a repair or   *)
(* a hull_patch requested at hull = MAX_HULL is rejected.                   *)
C18_HullRejected ==
    /\ [](hull \in -2..MAX_HULL)
    /\ [](Active => hull >= 1)
    /\ [][hull' >= hull - 3]_vars
    /\ [][ (hull = MAX_HULL /\ AsksForHull(req')) => Rejected(resp') ]_vars

(* C18 (amended): -2 <= hull <= MAX_HULL in every state, hull >= 1 whenever *)
(* status is active, one action lowers hull by at most 3, and a repair or   *)
(* a hull_patch requested at hull = MAX_HULL leaves hull as it is: it is    *)
(* rejected on an active session (and returns without an error on a won     *)
(* one).                                                                    *)
C18_Hull ==
    /\ [](hull \in -2..MAX_HULL)
    /\ [](Active => hull >= 1)
    /\ [][hull' >= hull - 3]_vars
    /\ [][ (hull = MAX_HULL /\ AsksForHull(req'))
              => ((Active <=> Rejected(resp')) /\ hull' = hull) ]_vars

C18_Witness ==
    /\ hull = -2
    /\ status = "lost"
    /\ ActionOf(req) = "fight"
    /\ ~Rejected(resp)
    /\ credits = 0

(* C19: an active session always has an action that is accepted: with no    *)
(* event pending a scan is accepted, with an event pending a fight is       *)
(* accepted (whatever fuel and credits are) and clears it.                  *)
C19_Playable ==
    /\ [](Active =>
            IF pending_event = NoEvent
            THEN ENABLED (/\ act(Request("scan", None, None, None))
                          /\ ~Rejected(resp') /\ turn' = turn + 1)
            ELSE ENABLED (/\ act(Request("fight", None, None, None))
                          /\ ~Rejected(resp') /\ turn' = turn + 1))
    /\ [][ (Active /\ pending_event = NoEvent /\ req'.game_id = GameId
              /\ ActionOf(req') = "scan")
             => (~Rejected(resp') /\ turn' = turn + 1) ]_vars
    /\ [][ (Active /\ pending_event # NoEvent /\ req'.game_id = GameId
              /\ ActionOf(req') = "fight")
             => (~Rejected(resp') /\ turn' = turn + 1 /\ pending_event' = NoEvent) ]_vars

C19_Witness ==
    /\ Active
    /\ ActionOf(req) = "fight"
    /\ ~Rejected(resp)
    /\ credits = START_CREDITS + 18
    /\ fuel = MAX_FUEL - 1
    /\ pending_event = NoEvent

(* C20: once a session is stranded (active, no event pending, fuel 0, on a  *)
(* tile that is neither base nor station and holds no uncollected anomaly)  *)
(* it stays stranded: a scan is accepted and only advances turn and log,    *)
(* every other request is rejected, and position, fuel, hull, credits and   *)
(* status never change again, so the session stays active.                  *)
C20_Stranded ==
    [][ Stranded =>
          /\ Stranded'
          /\ UNCHANGED <<x, y, fuel, hull, credits, status, anomalies, pending_event>>
          /\ IF req'.game_id = GameId /\ ActionOf(req') = "scan"
             THEN ~Rejected(resp') /\ turn' = turn + 1 /\ log' = log + 1
             ELSE Rejected(resp') /\ turn' = turn /\ log' = log ]_vars

C20_Witness ==
    /\ Stranded
    /\ turn = MaxStrandTurn - 1
    /\ ActionOf(req) = "scan"
    /\ ~Rejected(resp)
    /\ credits >= 5

====
